---- MODULE Spec2Model ----
(***************************************************************************)
(* Risk feature and prediction pipeline of the flood warning system:       *)
(* core/ml_model.py (basic), core/ml_model_advanced.py (advanced),         *)
(* core/ml_model_historical.py (historical), the pre_save hook of          *)
(* core/signals.py and the alert task of core/tasks.py.                    *)
(*                                                                         *)
(* Numbers: probabilities and scores are exact rationals.  A value x is    *)
(* stored as the integer x * unit, where unit = 1000 * d and d is the      *)
(* number of rainfall samples the mean was taken over (1 when there is     *)
(* none), so that 0.7 is 700 * d and 1.0 is 1000 * d.                      *)
(***************************************************************************)
EXTENDS Integers, Sequences, FiniteSets, TLC

(* ------------------------------ bounds -------------------------------- *)
MaxCycles == 1
MaxFaults == 1
MaxObs == 1
MaxReports == 1
MaxRuns == 2
MaxRepeat == 2
MaxCount == 10
MaxStored == 2
MaxClock == 2
MaxBeatClock == 30
MaxDays == 8

(* --------------------------- program constants ------------------------ *)
HIGH_RISK_THRESHOLD == 700
MEDIUM_RISK_THRESHOLD == 400
MIN_SAMPLES == 10
Hour == 12
PredictAt == 3
AlertAt == 4

WardIds == {1, 2, 3}
NAIROBI_WARDS == <<1, 2>>
RISK_CHOICES == {"Low", "Medium", "High"}
risk_levels == <<"Low", "Medium", "High">>
Variants == {"basic", "advanced"}
RainValues == {40, 110}
RainSums == {0, 5, 10, 25, 30, 40, 60, 110}
NullReading == -1
Window == 24
Times == {-30, -24, 0, 6}
Readings == {NullReading, 0, 30, 60}
Temperatures == {NullReading, 0, 18}
Week == 168
ReportTimes == {-200, -168, 0}
STATUS_CHOICES == {"Pending", "Validated", "Rejected"}
ReportWards == {"this", "other", "none"}
Upvotes == {0, 7}
Trainers == {"cli", "task"}
Procs == {"a", "b"}
TrainVariants == {"basic", "advanced", "historical"}

VARIABLES
    wards,          \* Ward table: ids of the rows that exist
    wardLevel,      \* Ward.current_risk_level
    wardWrites,     \* number of completed Ward.save() per ward
    alerts,         \* number of Alert rows per ward (pre_save hook)
    predictions,    \* FloodPrediction table, in creation order
    weather,        \* per ward: rainfall_mm of the observations of the last 24h, by timestamp
    reports,        \* per ward: Validated CrowdReports of the last 7 days
    subscribers,    \* wards with at least one subscriber that has an email
    mailed,         \* per ward: alert mails per subscriber in the last run of trigger_high_risk_alerts
    files,          \* artifact files: files[variant].model / .scaler
    faults,         \* injected failures still available
    cycles,         \* prediction cycles started
    cpc, cvariant, cwards, cidx, ccount, cret, cpred, cfeat, cmodel, cstart, cfailed,
    tpc, tvariant, tforce, trun, tret, tstart, nextRun,
    hret,
    memo,           \* what the fitted files answered: pairs <<files and feature vector, predict_proba>>
    samples,        \* labeled samples fetch_historical_training_data finds
    fin,            \* the arguments of a call of one of the pure functions
    fout,           \* what that call returned
    clock,          \* timezone.now(), in ticks of five minutes
    procs,          \* the workers that run overlapping prediction cycles
    beat,           \* the beat schedule: what it sent last and the rows the alert task selected
    crowd           \* CrowdReport table, in creation order

cvars == <<cpc, cvariant, cwards, cidx, ccount, cret, cpred, cfeat, cmodel, cstart, cfailed, memo>>
tvars == <<tpc, tvariant, tforce, trun, tret, tstart, nextRun>>
dbvars == <<wards, wardLevel, wardWrites, alerts, predictions>>
envvars == <<weather, reports, subscribers, samples>>
sidevars == <<clock, procs, beat, crowd>>
purevars == <<fin, fout, sidevars>>
vars == <<wards, wardLevel, wardWrites, alerts, predictions, weather, reports,
          subscribers, mailed, files, faults, cycles,
          cpc, cvariant, cwards, cidx, ccount, cret, cpred, cfeat, cmodel, cstart, cfailed,
          tpc, tvariant, tforce, trun, tret, tstart, nextRun, hret,
          memo, samples, fin, fout, clock, procs, beat, crowd>>

NoneVal == [kind |-> "None"]
\* a worker that runs no cycle
IdleProc == [pc |-> "idle", variant |-> "basic", wards |-> <<>>, idx |-> 1, pred |-> NoneVal]
\* no scheduled run so far
NoBeat == [started |-> -1, alerted |-> -1, selected |-> {}]
NoRet == -1

(* ------------------------------ helpers ------------------------------- *)
Max(a, b) == IF a >= b THEN a ELSE b
Min(a, b) == IF a <= b THEN a ELSE b

RECURSIVE SumSeq(_)
SumSeq(s) == IF s = <<>> THEN 0 ELSE Head(s) + SumSeq(Tail(s))

RECURSIVE SortedSeq(_)
SortedSeq(S) ==
    IF S = {} THEN <<>>
    ELSE LET m == CHOOSE x \in S : \A y \in S : x <= y
         IN <<m>> \o SortedSeq(S \ {m})

(* ----------------------- double-precision floats ---------------------- *)
\* Python floats are IEEE-754 doubles.  A natural number of any size is a
\* sequence of limbs, least significant first; a double is m * 2^e with a
\* significand m of at most 53 bits.
Base == 32768
LimbBits == 15
Significand == 53

RECURSIVE NatN(_)
NatN(n) == IF n = 0 THEN <<>> ELSE <<n % Base>> \o NatN(n \div Base)

RECURSIVE Norm(_)
Norm(a) ==
    IF a # <<>> /\ a[Len(a)] = 0 THEN Norm(SubSeq(a, 1, Len(a) - 1)) ELSE a

Limb(a, i) == IF i <= Len(a) THEN a[i] ELSE 0

RECURSIVE AddFrom(_, _, _, _)
AddFrom(a, b, i, c) ==
    IF i > Len(a) /\ i > Len(b) THEN (IF c = 0 THEN <<>> ELSE <<c>>)
    ELSE LET s == Limb(a, i) + Limb(b, i) + c
         IN <<s % Base>> \o AddFrom(a, b, i + 1, s \div Base)

AddN(a, b) == AddFrom(a, b, 1, 0)

RECURSIVE MulSmallFrom(_, _, _, _)
MulSmallFrom(a, k, i, c) ==
    IF i > Len(a) THEN (IF c = 0 THEN <<>> ELSE <<c>>)
    ELSE LET s == a[i] * k + c
         IN <<s % Base>> \o MulSmallFrom(a, k, i + 1, s \div Base)

MulSmall(a, k) == Norm(MulSmallFrom(a, k, 1, 0))

ShiftLimbs(a, n) == IF a = <<>> THEN <<>> ELSE [i \in 1..n |-> 0] \o a

RECURSIVE MulN(_, _)
MulN(a, b) ==
    IF b = <<>> THEN <<>>
    ELSE AddN(MulSmall(a, Head(b)), ShiftLimbs(MulN(a, Tail(b)), 1))

RECURSIVE DivSmallFrom(_, _, _, _)
DivSmallFrom(a, k, i, r) ==
    IF i = 0 THEN [q |-> <<>>, r |-> r]
    ELSE LET cur == r * Base + a[i]
             rest == DivSmallFrom(a, k, i - 1, cur % k)
         IN [q |-> rest.q \o <<cur \div k>>, r |-> rest.r]

NormQuotient(d) == [q |-> Norm(d.q), r |-> d.r]

DivSmall(a, k) == NormQuotient(DivSmallFrom(a, k, Len(a), 0))

RECURSIVE CmpFrom(_, _, _)
CmpFrom(a, b, i) ==
    IF i = 0 THEN 0
    ELSE IF a[i] > b[i] THEN 1
    ELSE IF a[i] < b[i] THEN -1
    ELSE CmpFrom(a, b, i - 1)

CmpN(a, b) ==
    IF Len(a) > Len(b) THEN 1
    ELSE IF Len(a) < Len(b) THEN -1
    ELSE CmpFrom(a, b, Len(a))

RECURSIVE Bits(_)
Bits(n) == IF n = 0 THEN 0 ELSE 1 + Bits(n \div 2)

BitLen(a) == IF a = <<>> THEN 0 ELSE LimbBits * (Len(a) - 1) + Bits(a[Len(a)])

ShiftLeft(a, s) == ShiftLimbs(MulSmall(a, 2 ^ (s % LimbBits)), s \div LimbBits)

ShiftRight(a, s) ==
    IF s \div LimbBits >= Len(a) THEN <<>>
    ELSE DivSmall(SubSeq(a, s \div LimbBits + 1, Len(a)), 2 ^ (s % LimbBits)).q

\* the significand m, one bit shorter when the rounding carried into a
\* 54th bit
Carried(m, e) ==
    IF BitLen(m) > Significand THEN [m |-> ShiftRight(m, 1), e |-> e + 1]
    ELSE [m |-> m, e |-> e]

\* c tells whether the value is below (-1), at (0) or above (1) the middle of
\* q and q + 1
RoundUp(q, c, inexact) ==
    IF c = 1 \/ (c = 0 /\ (inexact \/ q[1] % 2 = 1)) THEN AddN(q, <<1>>) ELSE q

RoundAt(N, e, inexact, s, q) ==
    Carried(RoundUp(q, CmpN(MulSmall(N, 2),
                            ShiftLeft(AddN(MulSmall(q, 2), <<1>>), s)),
                    inexact),
            e + s)

RoundBy(N, e, inexact, s) ==
    IF s <= 0 THEN [m |-> N, e |-> e]
    ELSE RoundAt(N, e, inexact, s, ShiftRight(N, s))

\* round to nearest, ties to even; inexact says that the value lies strictly
\* above N * 2^e (the remainder of a division)
RoundDouble(N, e, inexact) == RoundBy(N, e, inexact, BitLen(N) - Significand)

FromInt(n) == [m |-> NatN(n), e |-> 0]

RoundQuotient(d, e) == RoundDouble(d.q, e, d.r # 0)

\* x / k for a whole number 0 < k < Base
FDiv(x, k) ==
    RoundQuotient(DivSmall(ShiftLeft(x.m, 5 * LimbBits), k), x.e - 5 * LimbBits)

FMul(x, y) == RoundDouble(MulN(x.m, y.m), x.e + y.e, FALSE)

AlignedSum(x, y, e) ==
    RoundDouble(AddN(ShiftLeft(x.m, x.e - e), ShiftLeft(y.m, y.e - e)), e, FALSE)

FAdd(x, y) == AlignedSum(x, y, Min(x.e, y.e))

AlignedCmp(x, y, e) == CmpN(ShiftLeft(x.m, x.e - e), ShiftLeft(y.m, y.e - e))

\* -1, 0 or 1 as x is below, equal to or above y
FCmp(x, y) == AlignedCmp(x, y, Min(x.e, y.e))

\* the double written as the decimal literal a/10
Tenths(a) == FDiv(FromInt(a), 10)

(* --------------------------- feature builder -------------------------- *)
\* 'if w.rainfall_mm', 'if ... and latest_weather.temperature_celsius': a
\* reading that is None or 0 is false
Truthy(x) == x # NullReading /\ x # 0

\* rainfall_24h = [w.rainfall_mm for w in weather_data_24h if w.rainfall_mm]
Rainfall24h(w) == SelectSeq(weather[w], Truthy)

\* features['rainfall_24h_avg'] = mean(rainfall_24h) if rainfall_24h else 0,
\* kept as the fraction rain_num / rain_den;
\* features['validated_reports_7d'] = count of Validated reports.
FeaturesOf(w) ==
    LET r == Rainfall24h(w)
    IN [kind |-> "features",
        rain_num |-> IF r = <<>> THEN 0 ELSE SumSeq(r),
        rain_den |-> IF r = <<>> THEN 1 ELSE Len(r),
        validated_reports_7d |-> reports[w]]

\* The builder over the stored observations of one ward.  A store maps the
\* timestamps of the observations, in hours from now, to their readings; the
\* cycle specifications keep of it the rainfall of the rows the filter selects.
\* an observation records its three conditions together: none of them, all
\* of them as 0, or 18 degrees, 70 percent and 12 km/h
Observation(r, t) ==
    [rain |-> r, temp |-> t,
     humidity |-> IF t = 18 THEN 70 ELSE t,
     wind |-> IF t = 18 THEN 12 ELSE t]

Observations == {Observation(r, t) : r \in Readings, t \in Temperatures}

\* the reports in the table: the ward is the one the features are built
\* for, another one, or null; created_at in hours from now;
\* reliability_score keeps its default 0.5
ReportRows ==
    [ward : ReportWards, status : STATUS_CHOICES, created_at : ReportTimes,
     upvotes : Upvotes]

ReportTables == UNION {[1..n -> ReportRows] : n \in 0..MaxStored}

\* the stores the report tables are combined with
FewStores == {<<>>} \cup {[t \in {0} |-> Observation(30, 18)]}
Stores == UNION {[T -> Observations] : T \in SUBSET Times}

RECURSIVE GCD(_, _)
GCD(a, b) == IF b = 0 THEN a ELSE GCD(b, a % b)

Abs(n) == IF n < 0 THEN -n ELSE n

\* the quotient n / d in lowest terms
Frac(n, d) ==
    LET g == GCD(Abs(n), d) IN [num |-> n \div g, den |-> d \div g]

FracSub(a, b) == Frac(a.num * b.den - b.num * a.den, a.den * b.den)

\* np.mean(...) if ... else 0
MeanOrZero(s) == IF s # <<>> THEN Frac(SumSeq(s), Len(s)) ELSE Frac(0, 1)

\* WeatherDataLake.objects.filter(ward=ward, timestamp__gte=last_24h)
\*                        .order_by('timestamp')
weather_data_24h(store) == SortedSeq({t \in DOMAIN store : t >= -Window})

\* WeatherDataLake.objects.filter(ward=ward).order_by('timestamp')
weather_data_all(store) == SortedSeq(DOMAIN store)

\* [w.rainfall_mm for w in rows if w.rainfall_mm]
RainfallOf(store, rows) ==
    SelectSeq([i \in 1..Len(rows) |-> store[rows[i]].rain], Truthy)

\* the values used when the latest row lacks a condition
DefaultTemperature(v) == IF v = "basic" THEN 20 ELSE 25
DefaultHumidity(v) == IF v = "basic" THEN 50 ELSE 60
DefaultWind(v) == IF v = "basic" THEN 0 ELSE 5

\* the filter without its status: every report of the ward is counted
ValidatedReports7d_AnyStatus(reps) ==
    {i \in DOMAIN reps : /\ reps[i].ward = "this"
                         /\ reps[i].created_at >= -Week}

\* CrowdReport.objects.filter(ward=ward, created_at__gte=last_7d,
\*                            status='Validated')
ValidatedReports7d(reps) ==
    {i \in DOMAIN reps : /\ reps[i].ward = "this"
                         /\ reps[i].created_at >= -Week
                         /\ reps[i].status = "Validated"}

\* severity = min(10, report.reliability_score * 10 + report.upvotes)
Severity(report) == Min(10, 5 + report.upvotes)

RECURSIVE SumOver(_, _)
SumOver(reps, I) ==
    IF I = {} THEN 0
    ELSE LET i == CHOOSE x \in I : TRUE
         IN Severity(reps[i]) + SumOver(reps, I \ {i})

build_features(v, store, reps) ==
    LET rows == weather_data_24h(store)
        rainfall_24h == RainfallOf(store, rows)
        half == Len(rainfall_24h) \div 2
        first_half == SubSeq(rainfall_24h, 1, half)
        second_half == SubSeq(rainfall_24h, half + 1, Len(rainfall_24h))
        historical_rainfall == RainfallOf(store, weather_data_all(store))
        \* latest_weather = weather_data_24h.last()
        latest == IF rows = <<>> THEN Observation(NullReading, NullReading)
                  ELSE store[rows[Len(rows)]]
        community == ValidatedReports7d(reps)
    IN [kind |-> "features",
        rainfall_24h_avg |-> MeanOrZero(rainfall_24h),
        rainfall_trend |->
            IF Len(rainfall_24h) > 1
            THEN FracSub(MeanOrZero(second_half), MeanOrZero(first_half))
            ELSE Frac(0, 1),
        rainfall_historical_avg |-> MeanOrZero(historical_rainfall),
        temperature |-> IF Truthy(latest.temp) THEN latest.temp
                        ELSE DefaultTemperature(v),
        humidity |-> IF Truthy(latest.humidity) THEN latest.humidity
                     ELSE DefaultHumidity(v),
        wind_speed |-> IF Truthy(latest.wind) THEN latest.wind
                       ELSE DefaultWind(v),
        validated_reports_7d |-> Cardinality(community),
        report_severity_avg |->
            IF community # {}
            THEN Frac(SumOver(reps, community), Cardinality(community))
            ELSE Frac(0, 1)]

\* the builder without its except clause: the error leaves the call
features_or_none_Raises(v, store, reps, readable) ==
    IF readable THEN build_features(v, store, reps) ELSE [kind |-> "raises"]

\* try: ... return features    except Exception: ... return None
features_or_none(v, store, reps, readable) ==
    IF readable THEN build_features(v, store, reps) ELSE NoneVal

\* weather = WeatherDataLake.objects.filter(ward=ward,
\*                                          timestamp__gte=last_24h).last()
\* The queryset has the ordering of WeatherDataLake.Meta, ['-timestamp'];
\* last() reverses the ordering and takes the first row, which is the row
\* of the window with the least timestamp.
LastOfDefaultOrdering(store) ==
    LET rows == weather_data_24h(store)
    IN IF rows = <<>> THEN NoneVal
       ELSE [kind |-> "row", rain |-> store[rows[1]].rain,
             temp |-> store[rows[1]].temp,
             humidity |-> store[rows[1]].humidity,
             wind |-> store[rows[1]].wind]

\* x if weather and x else d
ReadingOr(row, x, d) == IF row.kind = "row" /\ Truthy(x) THEN x ELSE d

\* the feature list of the historical variant for a ward without
\* FloodHistoricalData and ClimatePatternData rows
prepare_enhanced_features(store) ==
    LET row == LastOfDefaultOrdering(store)
    IN [kind |-> "features",
        rainfall |-> IF row.kind = "row" THEN ReadingOr(row, row.rain, 0) ELSE 0,
        temperature |->
            IF row.kind = "row" THEN ReadingOr(row, row.temp, 25) ELSE 25,
        humidity |->
            IF row.kind = "row" THEN ReadingOr(row, row.humidity, 60) ELSE 60,
        wind_speed |->
            IF row.kind = "row" THEN ReadingOr(row, row.wind, 5) ELSE 5,
        historical_avg |-> 0, flood_probability |-> 0, vulnerability |-> 0]

prepare_features_for_ward(w, readable) ==
    IF readable THEN FeaturesOf(w) ELSE NoneVal

(* ------------------------- baseline classifier ------------------------ *)
Unit(f) == 1000 * f.rain_den

\* risk_score = (rainfall / 50.0) * 0.6 + (reports / 10.0) * 0.4      (basic)
\* risk_score = (rainfall / 100.0) * 0.7 + (reports / 15.0) * 0.3    (advanced)
\* risk_score = min(1.0, max(0.0, risk_score))
\* the value of the expression before rounding, in units of 1 / Unit(f); the
\* probabilities of the result are kept in it
RawScore(v, f) ==
    IF v = "basic"
    THEN (f.rain_num * 1000 * 6) \div (50 * 10)
         + (f.validated_reports_7d * f.rain_den * 1000 * 4) \div (10 * 10)
    ELSE (f.rain_num * 1000 * 7) \div (100 * 10)
         + (f.validated_reports_7d * f.rain_den * 1000 * 3) \div (15 * 10)

RiskScore(v, f) == Min(Unit(f), Max(0, RawScore(v, f)))

\* rainfall = features.get('rainfall_24h_avg', 0): np.mean of the readings
RainfallAvg(f) == FDiv(FromInt(f.rain_num), f.rain_den)

\* the divisors and the weights (in tenths) of the two variants
RainDivisor(v) == IF v = "basic" THEN 50 ELSE 100
RainWeight(v) == IF v = "basic" THEN 6 ELSE 7
CountDivisor(v) == IF v = "basic" THEN 10 ELSE 15
CountWeight(v) == IF v = "basic" THEN 4 ELSE 3

\* a clamp that takes a score above 1 for no score at all
Clamp_Resets(s) == IF FCmp(s, FromInt(1)) = 1 THEN FromInt(0) ELSE s

\* min(1.0, max(0.0, risk_score)) of a score that is not negative
Clamp(s) == IF FCmp(s, FromInt(1)) = 1 THEN FromInt(1) ELSE s

\* the risk score as Python computes it, in doubles, operation by operation
FloatScore(v, f) ==
    Clamp(FAdd(FMul(FDiv(RainfallAvg(f), RainDivisor(v)),
                    Tenths(RainWeight(v))),
               FMul(FDiv(FromInt(f.validated_reports_7d), CountDivisor(v)),
                    Tenths(CountWeight(v)))))

\* the thresholds as doubles: 0.7 and 0.4
Threshold(t) == FDiv(FromInt(t), 1000)

AtLeast(s, t) == FCmp(s, Threshold(t)) >= 0

\* if risk_score >= HIGH_RISK_THRESHOLD: 'High'
\* elif risk_score >= MEDIUM_RISK_THRESHOLD: 'Medium' else: 'Low'
LevelOfScore(s) ==
    IF AtLeast(s, HIGH_RISK_THRESHOLD) THEN "High"
    ELSE IF AtLeast(s, MEDIUM_RISK_THRESHOLD) THEN "Medium"
    ELSE "Low"

BaselineLevel(v, f) == LevelOfScore(FloatScore(v, f))

baseline_prediction(v, f) ==
    IF f.kind = "None" THEN NoneVal
    ELSE LET s == RiskScore(v, f)
         IN [kind |-> "prediction",
             risk_level |-> BaselineLevel(v, f),
             low |-> Max(0, Unit(f) - s),
             medium |-> IF s >= 400 * f.rain_den THEN Max(0, s - 400 * f.rain_den) ELSE 0,
             high |-> IF s >= 700 * f.rain_den THEN Max(0, s - 700 * f.rain_den) ELSE 0,
             unit |-> Unit(f),
             mode |-> "baseline",
             model |-> 0, scaler |-> 0,
             features_used |-> f]

(* -------------------------- trained classifier ------------------------ *)
\* predict_proba of a fitted three-class ensemble: some distribution over
\* the classes; the grid has a step of one half.
ProbaGrid ==
    {p \in [1..3 -> {0, 500, 1000}] : p[1] + p[2] + p[3] = 1000}

\* model.predict: the first class of largest probability
ArgMax(p) ==
    CHOOSE i \in DOMAIN p : /\ \A j \in DOMAIN p : p[i] >= p[j]
                            /\ \A j \in DOMAIN p : j < i => p[j] < p[i]

\* scaler.transform and model.predict_proba are functions of the two loaded
\* files and of the feature vector: the same files answer the same vector
\* with the same distribution
FitKey(v, m, s, f) == [variant |-> v, model |-> m, scaler |-> s, features |-> f]

\* an ensemble that is fitted anew, unseeded, for every call
predict_proba_Unseeded(v, m, s, f) == ProbaGrid

predict_proba(v, m, s, f) ==
    {p \in ProbaGrid : \A e \in memo : e[1] = FitKey(v, m, s, f) => e[2] = p}

Remember(v, m, s, f, p) == memo \cup {<<FitKey(v, m, s, f), p>>}

trained_prediction(p, f, m, s) ==
    [kind |-> "prediction",
     risk_level |-> risk_levels[ArgMax(p)],
     low |-> p[1], medium |-> p[2], high |-> p[3],
     unit |-> 1000,
     mode |-> "trained",
     model |-> m, scaler |-> s,
     features_used |-> f]

\* model.classes_ of an artifact: the labels its training data held, in
\* increasing order.  The data of train_model and the embedded samples of
\* train_advanced_model hold the three labels; the historical data hold the
\* labels of the events (0, 1, 2) and of the climate rows (0 or 2), and the
\* gradient boosting member of the ensemble needs two labels to fit.
ArtifactClasses(v) ==
    IF v = "historical" THEN {<<0, 1>>, <<0, 2>>, <<1, 2>>, <<0, 1, 2>>}
    ELSE {<<0, 1, 2>>}

\* predict_proba of an artifact of n classes: one column per class
ProbaOfClasses(n) ==
    {q \in [1..n -> {0, 500, 1000}] : SumSeq([i \in 1..n |-> q[i]]) = 1000}

\* the trained-mode result: risk_pred = model.predict(...)[0] is the label
\* classes_[argmax]; risk_levels[risk_pred] names the level; the probabilities
\* are read by column: risk_proba[0], risk_proba[1], risk_proba[2]
trained_result(v, classes, q) ==
    LET risk_pred == classes[ArgMax(q)]
        n == Len(classes)
    IN IF v = "basic" /\ n < 3
       THEN \* risk_proba[2]: IndexError, caught by the except branch
            [kind |-> "raises"]
       ELSE [kind |-> "prediction",
             risk_level |-> risk_levels[risk_pred + 1],
             low |-> q[1],
             medium |-> IF n > 1 THEN q[2] ELSE 0,
             high |-> IF n > 2 THEN q[3] ELSE 0,
             unit |-> 1000,
             mode |-> "trained"]

(* ---------------------------- artifact files -------------------------- *)
\* Content of an artifact file: Absent, Partial (opened for writing and not,
\* or not completely, dumped), or the number of the training run that
\* dumped it.
Absent == 0
Partial == -1
Exists(content) == content # Absent
Readable(content) == content >= 1

(* --------------------------- prediction cycle ------------------------- *)
CurWard == cwards[cidx]

\* model_version='v2.0' / model_version='v3.0-advanced'
ModelVersion(v) == IF v = "basic" THEN "v2.0" ELSE "v3.0-advanced"

\* the row with a validity window that ends where it begins
Row_NoWindow(w, p) ==
    [ward |-> w,
     predicted_risk_level |-> p.risk_level,
     probability_low |-> p.low,
     probability_medium |-> p.medium,
     probability_high |-> p.high,
     unit |-> p.unit,
     mode |-> p.mode,
     model_version |-> ModelVersion(cvariant),
     valid_from |-> clock,
     valid_until |-> clock,
     created_at |-> clock,
     recent |-> TRUE]

Row(w, p) ==
    [ward |-> w,
     predicted_risk_level |-> p.risk_level,
     probability_low |-> p.low,
     probability_medium |-> p.medium,
     probability_high |-> p.high,
     unit |-> p.unit,
     mode |-> p.mode,
     model_version |-> ModelVersion(cvariant),
     valid_from |-> clock,
     valid_until |-> clock + 2 * Hour,
     created_at |-> clock,
     recent |-> TRUE]

\* the locals of the loop body go out of scope
DropLocals ==
    /\ cpred' = NoneVal
    /\ cfeat' = NoneVal
    /\ cmodel' = Absent

\* except Exception: return 0 -- the loop is left, what was written stays
Abort ==
    /\ cret' = 0
    /\ cpc' = "done"
    /\ faults' = faults - 1
    /\ DropLocals

\* predict_all_wards() / predict_all_nairobi_wards() is called
StartCycle(v) ==
    /\ cpc \in {"idle", "done"}
    /\ cycles' = cycles + 1
    /\ cvariant' = v
    /\ cwards' = IF v = "basic" THEN SortedSeq(wards) ELSE NAIROBI_WARDS
    /\ cidx' = 1
    /\ ccount' = 0
    /\ cret' = NoRet
    /\ DropLocals
    /\ cstart' = Len(predictions)
    /\ cfailed' = {}
    /\ cpc' = "loop"
    /\ UNCHANGED <<dbvars, envvars, mailed, files, faults, tvars, hret, purevars, memo>>

\* the part of predict_risk_for_ward / predict_risk_for_ward_advanced after
\* the features were built, up to and including the read of MODEL_PATH
AfterFeatures(v, w, f) ==
    /\ cfeat' = f
    /\ cpc' = IF Readable(files[v].model) THEN "loaded" ELSE "create"
    /\ cmodel' = IF Readable(files[v].model) THEN files[v].model ELSE Absent
    /\ cpred' =
         IF ~Exists(files[v].model) THEN baseline_prediction(v, f)
         ELSE IF ~Readable(files[v].model)
         THEN \* pickle.load raises: the except branch returns the baseline
              baseline_prediction(v, IF v = "basic"
                                     THEN prepare_features_for_ward(w, TRUE)
                                     ELSE f)
         ELSE NoneVal
    /\ cfailed' = IF Exists(files[v].model) /\ ~Readable(files[v].model)
                  THEN cfailed \cup {w} ELSE cfailed

\* basic cycle, one ward: predict_risk_for_ward up to the read of the model file
PredictBegin ==
    /\ cpc = "loop" /\ cidx <= Len(cwards) /\ cvariant = "basic"
    /\ \E readable \in BOOLEAN :
         LET f == prepare_features_for_ward(CurWard, readable) IN
         /\ ~readable => faults > 0
         /\ faults' = IF readable THEN faults ELSE faults - 1
         /\ IF f.kind = "None"
            THEN \* prediction is None: the ward is skipped
                 /\ cidx' = cidx + 1
                 /\ DropLocals
                 /\ UNCHANGED <<cpc, cfailed>>
            ELSE /\ AfterFeatures("basic", CurWard, f)
                 /\ UNCHANGED cidx
    /\ UNCHANGED <<dbvars, envvars, mailed, files, cycles, cvariant, cwards,
                   ccount, cret, cstart, tvars, hret, purevars, memo>>

\* advanced cycle, one ward: get_or_create, prepare_features_for_ward and
\* predict_risk_for_ward_advanced up to the read of the model file
PredictBeginAdvanced ==
    /\ cpc = "loop" /\ cidx <= Len(cwards) /\ cvariant = "advanced"
    /\ \E outcome \in {"ok", "lookup_fails", "features_fail"} :
         /\ outcome # "ok" => faults > 0
         /\ IF outcome = "lookup_fails"
            THEN /\ Abort
                 /\ UNCHANGED <<wards, wardLevel, cidx, cfailed>>
            ELSE /\ wards' = wards \cup {CurWard}
                 /\ wardLevel' = IF CurWard \in wards THEN wardLevel
                                  ELSE [wardLevel EXCEPT ![CurWard] = "Low"]
                 /\ cret' = cret
                 /\ IF outcome = "features_fail"
                    THEN /\ faults' = faults - 1
                         /\ cidx' = cidx + 1
                         /\ DropLocals
                         /\ UNCHANGED <<cpc, cfailed>>
                    ELSE /\ faults' = faults
                         /\ AfterFeatures("advanced", CurWard,
                                          prepare_features_for_ward(CurWard, TRUE))
                         /\ UNCHANGED cidx
    /\ UNCHANGED <<wardWrites, alerts, predictions, envvars, mailed, files, cycles,
                   cvariant, cwards, ccount, cstart, tvars, hret, purevars, memo>>

\* the rest of the prediction without the except branch: a failure of the
\* inference leaves the loop
PredictFinish_Propagates ==
    /\ cpc = "loaded"
    /\ \E rejected \in BOOLEAN :
         /\ rejected => faults > 0
         /\ IF rejected \/ ~Readable(files[cvariant].scaler)
            THEN /\ cret' = 0
                 /\ cpc' = "done"
                 /\ faults' = IF rejected THEN faults - 1 ELSE faults
                 /\ DropLocals
                 /\ cfailed' = cfailed \cup {CurWard}
            ELSE /\ \E p \in ProbaGrid :
                      cpred' = trained_prediction(p, cfeat, cmodel, files[cvariant].scaler)
                 /\ cpc' = "create"
                 /\ UNCHANGED <<faults, cret, cfeat, cmodel, cfailed>>
    /\ UNCHANGED <<dbvars, envvars, mailed, files, cycles, cvariant, cwards, cidx,
                   ccount, cstart, tvars, hret, purevars, memo>>

\* the rest of the prediction: read of SCALER_PATH, transform, predict_proba
PredictFinish ==
    /\ cpc = "loaded"
    /\ \E rejected \in BOOLEAN :
         /\ rejected => faults > 0
         /\ faults' = IF rejected THEN faults - 1 ELSE faults
         /\ IF rejected \/ ~Readable(files[cvariant].scaler)
            THEN /\ cpred' = baseline_prediction(cvariant,
                                  IF cvariant = "basic"
                                  THEN prepare_features_for_ward(CurWard, TRUE)
                                  ELSE cfeat)
                 /\ cfailed' = cfailed \cup {CurWard}
                 /\ UNCHANGED memo
            ELSE /\ \E p \in predict_proba(cvariant, cmodel, files[cvariant].scaler, cfeat) :
                      /\ cpred' = trained_prediction(p, cfeat, cmodel,
                                                     files[cvariant].scaler)
                      /\ memo' = Remember(cvariant, cmodel, files[cvariant].scaler, cfeat, p)
                 /\ UNCHANGED cfailed
    /\ cpc' = "create"
    /\ UNCHANGED <<dbvars, envvars, mailed, files, cycles, cvariant, cwards, cidx,
                   ccount, cret, cfeat, cmodel, cstart, tvars, hret, purevars>>

\* update_or_create on the ward instead of create: the ward's row whose
\* validity window is still open is overwritten
CreateRow_UpdateOrCreate ==
    /\ cpc = "create"
    /\ LET open == {i \in 1..Len(predictions) :
                       predictions[i].ward = CurWard /\ predictions[i].recent}
       IN IF open = {}
          THEN predictions' = Append(predictions, Row(CurWard, cpred))
          ELSE predictions' = [i \in 1..Len(predictions) |->
                                 IF i \in open THEN Row(CurWard, cpred)
                                 ELSE predictions[i]]
    /\ ccount' = ccount + 1
    /\ cpc' = "save"
    /\ UNCHANGED <<cret, faults, cpred, cfeat, cmodel>>
    /\ UNCHANGED <<wards, wardLevel, wardWrites, alerts, envvars, mailed, files, cycles,
                   cvariant, cwards, cidx, cstart, cfailed, tvars, hret, purevars, memo>>

\* FloodPrediction.objects.create(...); predictions_created += 1
CreateRow ==
    /\ cpc = "create"
    /\ \E ok \in BOOLEAN :
         /\ ~ok => faults > 0
         /\ IF ok
            THEN /\ predictions' = Append(predictions, Row(CurWard, cpred))
                 /\ ccount' = ccount + 1
                 /\ cpc' = "save"
                 /\ UNCHANGED <<cret, faults, cpred, cfeat, cmodel>>
            ELSE /\ Abort
                 /\ UNCHANGED <<predictions, ccount>>
    /\ UNCHANGED <<wards, wardLevel, wardWrites, alerts, envvars, mailed, files, cycles,
                   cvariant, cwards, cidx, cstart, cfailed, tvars, hret, purevars, memo>>

\* the hook without the comparison with the stored level
AlertsAfterHook_AnyHigh(w, new_risk) ==
    IF new_risk = "High" THEN [alerts EXCEPT ![w] = @ + 1] ELSE alerts

\* check_risk_level_change (pre_save): an Alert row when the level goes to High
AlertsAfterHook(w, new_risk) ==
    LET old_risk == wardLevel[w]
    IN IF new_risk = "High" /\ old_risk # "High"
       THEN [alerts EXCEPT ![w] = @ + 1]
       ELSE alerts

\* ward.current_risk_level = prediction['risk_level']; ward.save()
SaveWard ==
    /\ cpc = "save"
    /\ \E outcome \in {"ok", "hook_fails", "write_fails"} :
         /\ outcome # "ok" => faults > 0
         /\ alerts' = IF outcome = "hook_fails" THEN alerts
                       ELSE AlertsAfterHook(CurWard, cpred.risk_level)
         /\ IF outcome = "ok"
            THEN /\ wardLevel' = [wardLevel EXCEPT ![CurWard] = cpred.risk_level]
                 /\ wardWrites' = [wardWrites EXCEPT ![CurWard] = @ + 1]
                 /\ cidx' = cidx + 1
                 /\ cpc' = "loop"
                 /\ DropLocals
                 /\ UNCHANGED <<cret, faults>>
            ELSE /\ Abort
                 /\ UNCHANGED <<wardLevel, wardWrites, cidx>>
    /\ UNCHANGED <<wards, predictions, envvars, mailed, files, cycles, cvariant, cwards,
                   ccount, cstart, cfailed, tvars, hret, purevars, memo>>

\* return predictions_created
FinishCycle ==
    /\ cpc = "loop" /\ cidx > Len(cwards)
    /\ cret' = ccount
    /\ cpc' = "done"
    /\ UNCHANGED <<dbvars, envvars, mailed, files, faults, cycles, cvariant, cwards,
                   cidx, ccount, cpred, cfeat, cmodel, cstart, cfailed, tvars, hret, purevars, memo>>

(* ---------------------------- alert task ------------------------------ *)
\* FloodPrediction rows with predicted_risk_level = 'High' and
\* created_at >= now - 1h, for ward w
RecentHigh(w) ==
    {i \in 1..Len(predictions) : /\ predictions[i].ward = w
                                 /\ predictions[i].predicted_risk_level = "High"
                                 /\ predictions[i].recent}

\* a send_bulk_alerts that exists and mails every recipient once per call
send_bulk_alerts_Defined(calls) == calls

\* The mails a subscriber of a ward gets from the calls of send_bulk_alerts
\* for that ward.  FloodAlertEmailService defines send_flood_alert and
\* send_ward_flood_alert, and no send_bulk_alerts: the first call raises
\* AttributeError, the except branch of the task returns {'error': ...},
\* and no mail has been sent.
send_bulk_alerts(calls) == 0

\* trigger_high_risk_alerts: one send_bulk_alerts per selected prediction row
\* whose ward has a subscriber
TriggerHighRiskAlerts ==
    /\ mailed' = [w \in WardIds |->
                    IF w \in subscribers
                    THEN send_bulk_alerts(Cardinality(RecentHigh(w))) ELSE 0]
    /\ beat' = [beat EXCEPT !.selected = @ \cup UNION {RecentHigh(w) : w \in WardIds}]
    /\ UNCHANGED <<dbvars, envvars, files, faults, cycles, cvars, tvars, hret,
                   fin, fout, crowd, clock, procs>>

\* more than an hour passes: no row is within the look-back of the task any more
HourPasses ==
    /\ \E i \in 1..Len(predictions) : predictions[i].recent
    /\ predictions' = [i \in 1..Len(predictions) |->
                         [predictions[i] EXCEPT !.recent = FALSE]]
    /\ UNCHANGED <<wards, wardLevel, wardWrites, alerts, envvars, mailed, files,
                   faults, cycles, cvars, tvars, hret, purevars>>

(* ----------------------------- environment ---------------------------- *)
\* five minutes pass before the cycle reads the time for the row of a ward
Tick ==
    /\ cpc = "create"
    /\ clock < MaxClock
    /\ clock' = clock + 1
    /\ UNCHANGED <<dbvars, envvars, mailed, files, faults, cycles, cvars, tvars,
                   hret, fin, fout, crowd, procs, beat>>

\* a prediction cycle is running or can still be started: the stores are read again
ReadAgain == cpc \notin {"idle", "done"} \/ cycles < MaxCycles

\* the ingestion collaborator stores an observation of ward w
IngestWeather(w, r) ==
    /\ ReadAgain
    /\ w \in wards
    /\ Len(weather[w]) < MaxObs
    /\ weather' = [weather EXCEPT ![w] = Append(@, r)]
    /\ UNCHANGED <<dbvars, reports, subscribers, samples, mailed, files, faults, cycles,
                   cvars, tvars, hret, purevars>>

\* the oldest observation of ward w leaves the 24h window
ExpireWeather(w) ==
    /\ ReadAgain
    /\ w \in wards
    /\ weather[w] # <<>>
    /\ weather' = [weather EXCEPT ![w] = Tail(@)]
    /\ UNCHANGED <<dbvars, reports, subscribers, samples, mailed, files, faults, cycles,
                   cvars, tvars, hret, purevars>>

\* an authority validates a report of ward w
ValidateReport(w) ==
    /\ ReadAgain
    /\ w \in wards
    /\ reports[w] < MaxReports
    /\ reports' = [reports EXCEPT ![w] = @ + 1]
    /\ UNCHANGED <<dbvars, weather, subscribers, samples, mailed, files, faults, cycles,
                   cvars, tvars, hret, purevars>>

\* a validated report of ward w leaves the 7 day window
ExpireReport(w) ==
    /\ ReadAgain
    /\ w \in wards
    /\ reports[w] > 0
    /\ reports' = [reports EXCEPT ![w] = @ - 1]
    /\ UNCHANGED <<dbvars, weather, subscribers, samples, mailed, files, faults, cycles,
                   cvars, tvars, hret, purevars>>

(* ------------------------------ training ------------------------------ *)
OldRun == 1

TrainReturn(t, ok) ==
    /\ tret' = [tret EXCEPT ![t] = ok]
    /\ tpc' = [tpc EXCEPT ![t] = "done"]

\* train_model(force) / train_advanced_model(force) / train_historical_model(force):
\* the check of MODEL_PATH.exists()
StartTraining(t, force) ==
    /\ tpc[t] \in {"idle", "done"}
    /\ nextRun <= OldRun + MaxRuns
    /\ tforce' = [tforce EXCEPT ![t] = force]
    /\ tstart' = [tstart EXCEPT ![t] = files[tvariant]]
    /\ trun' = [trun EXCEPT ![t] = nextRun]
    /\ nextRun' = nextRun + 1
    /\ IF Exists(files[tvariant].model) /\ ~force
       THEN TrainReturn(t, TRUE)
       ELSE /\ tpc' = [tpc EXCEPT ![t] = "fit"]
            /\ tret' = [tret EXCEPT ![t] = FALSE]
    /\ UNCHANGED <<dbvars, envvars, mailed, files, faults, cycles, cvars, tvariant, hret, purevars>>

\* the comparison off by one: nine samples are taken to be enough
TooFewSamples_OffByOne == tvariant = "historical" /\ samples < MIN_SAMPLES - 1

\* if len(X) < 10: return False                                  (historical)
TooFewSamples == tvariant = "historical" /\ samples < MIN_SAMPLES

\* data preparation, sample count check, split, fit_transform, fit
Fit(t) ==
    /\ tpc[t] = "fit"
    /\ \E ok \in BOOLEAN :
         /\ TooFewSamples => ~ok
         /\ (~ok /\ ~TooFewSamples) => faults > 0
         /\ faults' = IF ok \/ TooFewSamples THEN faults ELSE faults - 1
         /\ IF ok
            THEN tpc' = [tpc EXCEPT ![t] = "open_model"] /\ UNCHANGED tret
            ELSE TrainReturn(t, FALSE)
    /\ UNCHANGED <<dbvars, envvars, mailed, files, cycles, cvars,
                   tvariant, tforce, trun, tstart, nextRun, hret, purevars>>

\* open(path, 'wb'): the file is created or truncated
OpenFile(t, kind, next) ==
    /\ \E ok \in BOOLEAN :
         /\ ~ok => faults > 0
         /\ faults' = IF ok THEN faults ELSE faults - 1
         /\ IF ok
            THEN /\ files' = [files EXCEPT ![tvariant][kind] = Partial]
                 /\ tpc' = [tpc EXCEPT ![t] = next]
                 /\ UNCHANGED tret
            ELSE /\ TrainReturn(t, FALSE)
                 /\ UNCHANGED files
    /\ UNCHANGED <<dbvars, envvars, mailed, cycles, cvars,
                   tvariant, tforce, trun, tstart, nextRun, hret, purevars>>

\* pickle.dump(obj, f) and the close of the file
DumpFile(t, kind, next) ==
    /\ \E ok \in BOOLEAN :
         /\ ~ok => faults > 0
         /\ faults' = IF ok THEN faults ELSE faults - 1
         /\ IF ok
            THEN /\ files' = [files EXCEPT ![tvariant][kind] = trun[t]]
                 /\ IF next = "done"
                    THEN TrainReturn(t, TRUE)
                    ELSE tpc' = [tpc EXCEPT ![t] = next] /\ UNCHANGED tret
            ELSE /\ TrainReturn(t, FALSE)
                 /\ UNCHANGED files
    /\ UNCHANGED <<dbvars, envvars, mailed, cycles, cvars,
                   tvariant, tforce, trun, tstart, nextRun, hret, purevars>>

OpenModel(t) == tpc[t] = "open_model" /\ OpenFile(t, "model", "dump_model")
DumpModel(t) == tpc[t] = "dump_model" /\ DumpFile(t, "model", "open_scaler")
OpenScaler(t) == tpc[t] = "open_scaler" /\ OpenFile(t, "scaler", "dump_scaler")
DumpScaler(t) == tpc[t] = "dump_scaler" /\ DumpFile(t, "scaler", "done")

(* ------------------------- historical prediction ---------------------- *)
\* predict_with_historical_context(ward)
predict_with_historical_context(readable, rejected, p) ==
    IF ~Exists(files["historical"].model) THEN NoneVal
    ELSE IF ~readable THEN NoneVal
    ELSE IF \/ ~Readable(files["historical"].model)
            \/ ~Readable(files["historical"].scaler)
            \/ rejected
    THEN NoneVal
    ELSE [kind |-> "prediction",
          risk_level |-> risk_levels[ArgMax(p)],
          low |-> p[1], medium |-> p[2], high |-> p[3],
          unit |-> 1000,
          mode |-> "trained"]

HistoricalPredict(w) ==
    /\ w \in wards
    /\ \E readable \in BOOLEAN, rejected \in BOOLEAN, p \in ProbaGrid :
         /\ (~readable \/ rejected) => faults > 0
         /\ hret' = [kind |-> "call",
                     ward |-> w,
                     model_existed |-> Exists(files["historical"].model),
                     features_built |-> readable,
                     result |-> predict_with_historical_context(readable, rejected, p)]
         /\ hret' # hret
    /\ UNCHANGED <<dbvars, envvars, mailed, files, faults, cycles, cvars, tvars, purevars>>

(* ---------------------------- specifications -------------------------- *)
NoFiles == [model |-> Absent, scaler |-> Absent]
GoodFiles == [model |-> OldRun, scaler |-> OldRun]
NoScaler == [model |-> OldRun, scaler |-> Absent]
CorruptModel == [model |-> Partial, scaler |-> OldRun]

InitCommon ==
    /\ tvariant \in TrainVariants
    /\ wardWrites = [w \in WardIds |-> 0]
    /\ alerts = [w \in WardIds |-> 0]
    /\ predictions = <<>>
    /\ mailed = [w \in WardIds |-> 0]
    /\ faults = MaxFaults
    /\ cycles = 0
    /\ cpc = "idle" /\ cvariant = "basic" /\ cwards = <<>> /\ cidx = 1
    /\ ccount = 0 /\ cret = NoRet /\ cpred = NoneVal /\ cfeat = NoneVal
    /\ cmodel = Absent /\ cstart = 0 /\ cfailed = {}
    /\ tpc = [t \in Trainers |-> "idle"]
    /\ tforce = [t \in Trainers |-> FALSE]
    /\ trun = [t \in Trainers |-> 0]
    /\ tret = [t \in Trainers |-> FALSE]
    /\ tstart = [t \in Trainers |-> NoFiles]
    /\ nextRun = OldRun + 1
    /\ hret = NoneVal
    /\ memo = {}
    /\ fin = NoneVal /\ fout = NoneVal
    /\ clock = 0
    /\ procs = [p \in Procs |-> IdleProc]
    /\ beat = NoBeat
    /\ crowd = <<>>

\* prediction cycles, the data they read and the alerts they cause
Init ==
    /\ wards \in {{1}, {1, 2}}
    /\ wardLevel = [w \in WardIds |-> "Low"]
    /\ InitCommon
    /\ tvariant = "basic"
    /\ weather = [w \in WardIds |-> <<>>]
    /\ reports = [w \in WardIds |-> 0]
    /\ subscribers = {1}
    /\ samples = MIN_SAMPLES
    /\ \E c \in {NoFiles, GoodFiles, NoScaler, CorruptModel} :
         files = [v \in TrainVariants |-> IF v = "historical" THEN NoFiles ELSE c]

Next ==
    \/ \E v \in Variants : cycles < MaxCycles /\ StartCycle(v)
    \/ PredictBegin
    \/ PredictBeginAdvanced
    \/ PredictFinish
    \/ CreateRow
    \/ SaveWard
    \/ FinishCycle
    \/ \E w \in WardIds, r \in RainValues : IngestWeather(w, r)
    \/ \E w \in WardIds : ExpireWeather(w)
    \/ \E w \in WardIds : ValidateReport(w)
    \/ \E w \in WardIds : ExpireReport(w)

Spec == Init /\ [][Next]_vars

\* prediction cycles over stores that do not change meanwhile, and the alert task
InitAlert ==
    /\ wards = {1, 2}
    /\ wardLevel \in {l \in [WardIds -> RISK_CHOICES] :
                         \A w \in WardIds \ wards : l[w] = "Low"}
    /\ InitCommon
    /\ tvariant = "basic"
    /\ weather \in {o \in [WardIds -> {<<>>} \cup {<<r>> : r \in RainValues}] :
                       \A w \in WardIds \ wards : o[w] = <<>>}
    /\ reports = [w \in WardIds |-> 0]
    /\ subscribers = {1}
    /\ samples = MIN_SAMPLES
    /\ \E c \in {NoFiles, GoodFiles} :
         files = [v \in TrainVariants |-> IF v = "historical" THEN NoFiles ELSE c]

NextAlert ==
    \/ \E v \in Variants : cycles < MaxCycles /\ StartCycle(v)
    \/ PredictBegin
    \/ PredictBeginAdvanced
    \/ PredictFinish
    \/ CreateRow
    \/ SaveWard
    \/ FinishCycle
    \/ TriggerHighRiskAlerts
    \/ HourPasses

SpecAlert == InitAlert /\ [][NextAlert]_vars

\* training runs, and predictions that read the artifact files meanwhile
InitTrain ==
    /\ wards = {1}
    /\ wardLevel = [w \in WardIds |-> "Low"]
    /\ InitCommon
    /\ weather = [w \in WardIds |-> <<>>]
    /\ reports = [w \in WardIds |-> 0]
    /\ subscribers = {1}
    /\ samples \in IF tvariant = "historical" THEN {MIN_SAMPLES - 1, MIN_SAMPLES}
                   ELSE {MIN_SAMPLES}
    /\ \E c \in {NoFiles, GoodFiles} : files = [v \in TrainVariants |-> c]

\* a cycle of the variant whose artifact files are being trained
StartCycleOfTrained ==
    tvariant \in Variants /\ cycles < MaxCycles /\ StartCycle(tvariant)

HistoricalPredictAny ==
    tvariant = "historical" /\ \E w \in WardIds : HistoricalPredict(w)

NextTrain ==
    \/ \E t \in Trainers, force \in BOOLEAN : StartTraining(t, force)
    \/ \E t \in Trainers : Fit(t)
    \/ \E t \in Trainers : OpenModel(t)
    \/ \E t \in Trainers : DumpModel(t)
    \/ \E t \in Trainers : OpenScaler(t)
    \/ \E t \in Trainers : DumpScaler(t)
    \/ StartCycleOfTrained
    \/ PredictBegin
    \/ PredictBeginAdvanced
    \/ PredictFinish
    \/ CreateRow
    \/ SaveWard
    \/ FinishCycle
    \/ HistoricalPredictAny

SpecTrain == InitTrain /\ [][NextTrain]_vars

\* one cycle invoked again and again over stores and files that do not change
InitTwice ==
    /\ wards \in {{1}, {1, 3}}
    /\ wardLevel = [w \in WardIds |-> "Low"]
    /\ InitCommon
    /\ tvariant = "basic"
    /\ weather \in {o \in [WardIds -> {<<>>} \cup {<<r>> : r \in RainValues}] :
                       \A w \in WardIds \ wards : o[w] = <<>>}
    /\ reports = [w \in WardIds |-> 0]
    /\ subscribers = {1}
    /\ samples = MIN_SAMPLES
    /\ \E c \in {NoFiles, GoodFiles, NoScaler} :
         files = [v \in TrainVariants |-> IF v = "historical" THEN NoFiles ELSE c]

NextTwice ==
    \/ \E v \in Variants : cycles < MaxRepeat /\ StartCycle(v)
    \/ PredictBegin
    \/ PredictBeginAdvanced
    \/ PredictFinish
    \/ CreateRow
    \/ SaveWard
    \/ FinishCycle

SpecTwice == InitTwice /\ [][NextTwice]_vars

\* one cycle while time passes
InitWindow ==
    /\ wards \in {{1}, {1, 2}}
    /\ wardLevel = [w \in WardIds |-> "Low"]
    /\ InitCommon
    /\ tvariant = "basic"
    /\ weather \in {o \in [WardIds -> {<<>>} \cup {<<r>> : r \in RainValues}] :
                       \A w \in WardIds \ wards : o[w] = <<>>}
    /\ reports = [w \in WardIds |-> 0]
    /\ subscribers = {1}
    /\ samples = MIN_SAMPLES
    /\ \E c \in {NoFiles, GoodFiles} :
         files = [v \in TrainVariants |-> IF v = "historical" THEN NoFiles ELSE c]

NextWindow ==
    \/ \E v \in Variants : cycles < MaxCycles /\ StartCycle(v)
    \/ PredictBegin
    \/ PredictBeginAdvanced
    \/ PredictFinish
    \/ CreateRow
    \/ SaveWard
    \/ FinishCycle
    \/ Tick

SpecWindow == InitWindow /\ [][NextWindow]_vars

\* two cycles within the hour, basic or advanced, and the alert task
InitMail ==
    /\ wards = {1}
    /\ wardLevel = [w \in WardIds |-> "Low"]
    /\ InitCommon
    /\ tvariant = "basic"
    /\ weather \in {o \in [WardIds -> {<<>>} \cup {<<r>> : r \in RainValues}] :
                       o[1] # <<>> /\ o[3] = <<>>}
    /\ reports = [w \in WardIds |-> 0]
    /\ subscribers = {1, 2}
    /\ samples = MIN_SAMPLES
    /\ \E c \in {NoFiles, NoScaler} :
         files = [v \in TrainVariants |-> IF v = "historical" THEN NoFiles ELSE c]

NextMail ==
    \/ \E v \in Variants : cycles < MaxRepeat /\ StartCycle(v)
    \/ PredictBegin
    \/ PredictBeginAdvanced
    \/ PredictFinish
    \/ CreateRow
    \/ SaveWard
    \/ FinishCycle
    \/ TriggerHighRiskAlerts
    \/ HourPasses

SpecMail == InitMail /\ [][NextMail]_vars

(* ---------------------- overlapping prediction cycles ------------------ *)
\* Two workers run predict_all_wards / predict_all_nairobi_wards on the same
\* database.  No statement of a cycle is inside a transaction or under a lock,
\* so the statements of the two loops interleave freely.
WorkerWard(p) == procs[p].wards[procs[p].idx]

\* the task is picked up by worker p: the loop starts over its list of wards
WorkerStart(p, v) ==
    /\ procs[p].pc = "idle"
    /\ procs' = [procs EXCEPT ![p] =
                   [pc |-> "loop", variant |-> v,
                    wards |-> IF v = "basic" THEN SortedSeq(wards) ELSE NAIROBI_WARDS,
                    idx |-> 1, pred |-> NoneVal]]
    /\ UNCHANGED <<dbvars, envvars, mailed, files, faults, cycles, cvars, tvars,
                   hret, fin, fout, crowd, clock, beat>>

\* one ward of the loop of worker p, up to the prediction: get_or_create in
\* the advanced cycle, the features, the files, the inference
WorkerPredict(p) ==
    /\ procs[p].pc = "loop" /\ procs[p].idx <= Len(procs[p].wards)
    /\ LET v == procs[p].variant
           w == WorkerWard(p)
       IN /\ wards' = IF v = "advanced" THEN wards \cup {w} ELSE wards
          /\ IF Readable(files[v].model) /\ Readable(files[v].scaler)
             THEN \E q \in predict_proba(v, files[v].model, files[v].scaler, FeaturesOf(w)) :
                     /\ procs' = [procs EXCEPT ![p].pc = "create", ![p].pred =
                                    trained_prediction(q, FeaturesOf(w), files[v].model,
                                                       files[v].scaler)]
                     /\ memo' = Remember(v, files[v].model, files[v].scaler,
                                         FeaturesOf(w), q)
             ELSE /\ procs' = [procs EXCEPT ![p].pc = "create", ![p].pred =
                                 baseline_prediction(v, FeaturesOf(w))]
                  /\ UNCHANGED memo
    /\ UNCHANGED <<wardLevel, wardWrites, alerts, predictions, envvars, mailed, files,
                   faults, cycles, cpc, cvariant, cwards, cidx, ccount, cret, cpred,
                   cfeat, cmodel, cstart, cfailed, tvars, hret, fin, fout, crowd, clock, beat>>

\* FloodPrediction.objects.create(...) of worker p
WorkerCreate(p) ==
    /\ procs[p].pc = "create"
    /\ predictions' = Append(predictions,
                             [Row(WorkerWard(p), procs[p].pred) EXCEPT
                                 !.model_version = ModelVersion(procs[p].variant)])
    /\ procs' = [procs EXCEPT ![p].pc = "save"]
    /\ UNCHANGED <<wards, wardLevel, wardWrites, alerts, envvars, mailed, files, faults,
                   cycles, cvars, tvars, hret, fin, fout, crowd, clock, beat>>

\* ward.current_risk_level = prediction['risk_level']; ward.save() of worker p
WorkerSave(p) ==
    /\ procs[p].pc = "save"
    /\ alerts' = AlertsAfterHook(WorkerWard(p), procs[p].pred.risk_level)
    /\ wardLevel' = [wardLevel EXCEPT ![WorkerWard(p)] = procs[p].pred.risk_level]
    /\ wardWrites' = [wardWrites EXCEPT ![WorkerWard(p)] = @ + 1]
    /\ procs' = [procs EXCEPT ![p].pc = "loop", ![p].idx = @ + 1, ![p].pred = NoneVal]
    /\ UNCHANGED <<wards, predictions, envvars, mailed, files, faults, cycles, cvars,
                   tvars, hret, fin, fout, crowd, clock, beat>>

\* the loop of worker p is over: the task returns
WorkerFinish(p) ==
    /\ procs[p].pc = "loop" /\ procs[p].idx > Len(procs[p].wards)
    /\ procs' = [procs EXCEPT ![p].pc = "done"]
    /\ UNCHANGED <<dbvars, envvars, mailed, files, faults, cycles, cvars, tvars,
                   hret, fin, fout, crowd, clock, beat>>

InitOverlap ==
    /\ wards \in {{1}, {1, 2}}
    /\ wardLevel = [w \in WardIds |-> "Low"]
    /\ InitCommon
    /\ tvariant = "basic"
    /\ weather \in {o \in [WardIds -> {<<r>> : r \in RainValues}] : o[3] = <<40>>}
    /\ reports = [w \in WardIds |-> 0]
    /\ subscribers = {1}
    /\ samples = MIN_SAMPLES
    /\ \E c \in {NoFiles, GoodFiles} :
         files = [v \in TrainVariants |-> IF v = "historical" THEN NoFiles ELSE c]

NextOverlap ==
    \/ \E p \in Procs, v \in Variants : WorkerStart(p, v)
    \/ \E p \in Procs : WorkerPredict(p)
    \/ \E p \in Procs : WorkerCreate(p)
    \/ \E p \in Procs : WorkerSave(p)
    \/ \E p \in Procs : WorkerFinish(p)

SpecOverlap == InitOverlap /\ [][NextOverlap]_vars

(* --------------------------- the beat schedule ------------------------- *)
\* crontab(minute=15, hour='*/2') and crontab(minute=20, hour='*/2'): the clock
\* counts ticks of five minutes from an even hour, the schedule repeats every
\* two hours.
Period == 2 * Hour

\* the row indices trigger_high_risk_alerts selects at the time now
SelectedAt(now) ==
    {i \in 1..Len(predictions) : /\ predictions[i].predicted_risk_level = "High"
                                 /\ predictions[i].created_at >= now - Hour}

\* minute 15: beat sends predict_flood_risk and worker "a" takes it.  A run
\* of the period before that has not returned yet keeps the worker.
BeatPredict ==
    /\ clock % Period = PredictAt
    /\ beat.started # clock
    /\ procs["a"].pc \in {"idle", "done"}
    /\ procs' = [procs EXCEPT !["a"] =
                   [pc |-> "loop", variant |-> "basic", wards |-> SortedSeq(wards),
                    idx |-> 1, pred |-> NoneVal]]
    /\ beat' = [beat EXCEPT !.started = clock]
    /\ UNCHANGED <<dbvars, envvars, mailed, files, faults, cycles, cvars, tvars,
                   hret, fin, fout, crowd, clock>>

\* minute 20: beat sends trigger_high_risk_alerts, which runs at once: one
\* send_bulk_alerts per selected row
BeatAlert ==
    /\ clock % Period = AlertAt
    /\ beat.alerted # clock
    /\ beat' = [beat EXCEPT !.alerted = clock,
                            !.selected = @ \cup SelectedAt(clock)]
    /\ mailed' = [w \in WardIds |->
                    IF w \in subscribers
                    THEN send_bulk_alerts(
                             Cardinality({i \in SelectedAt(clock) : predictions[i].ward = w}))
                    ELSE 0]
    /\ UNCHANGED <<dbvars, envvars, files, faults, cycles, cvars, tvars, hret,
                   fin, fout, crowd, clock, procs>>

\* five minutes pass; what the schedule sends at a time is sent at that time
BeatTick ==
    /\ clock < MaxBeatClock
    /\ clock % Period = PredictAt =>
          beat.started = clock \/ procs["a"].pc \notin {"idle", "done"}
    /\ clock % Period = AlertAt => beat.alerted = clock
    /\ clock' = clock + 1
    /\ UNCHANGED <<dbvars, envvars, mailed, files, faults, cycles, cvars, tvars,
                   hret, fin, fout, crowd, procs, beat>>

InitBeat ==
    /\ wards \in {{1}, {1, 2}}
    /\ wardLevel = [w \in WardIds |-> "Low"]
    /\ InitCommon
    /\ tvariant = "basic"
    /\ weather \in {o \in [WardIds -> {<<r>> : r \in RainValues}] :
                       o[1] = <<110>> /\ o[3] = <<40>>}
    /\ reports = [w \in WardIds |-> 0]
    /\ subscribers = {1}
    /\ samples = MIN_SAMPLES
    /\ \E c \in {NoFiles, NoScaler} :
         files = [v \in TrainVariants |-> IF v = "historical" THEN NoFiles ELSE c]

NextBeat ==
    \/ BeatPredict
    \/ WorkerPredict("a")
    \/ WorkerCreate("a")
    \/ WorkerSave("a")
    \/ WorkerFinish("a")
    \/ BeatAlert
    \/ BeatTick

SpecBeat == InitBeat /\ [][NextBeat]_vars

(* ------------------------- the crowd reports --------------------------- *)
Day == 24 * Hour

\* CrowdReport.objects.create(submitted_by=..., report_text=..., latitude=...,
\* longitude=..., photos=..., status='Pending'): no ward is given, the
\* nullable foreign key stays NULL; created_at is auto_now_add
submit_report_view ==
    /\ Len(crowd) < MaxStored
    /\ crowd' = Append(crowd, [ward |-> "none", status |-> "Pending",
                               created_at |-> clock, upvotes |-> 0,
                               via |-> "submit_report_view"])
    /\ UNCHANGED <<dbvars, envvars, mailed, files, faults, cycles, cvars, tvars,
                   hret, fin, fout, clock, procs, beat>>

\* POST of the authority dashboard: report.status = 'Validated' or
\* 'Rejected'; report.save()
authority_dashboard_view(i, action) ==
    /\ i \in DOMAIN crowd
    /\ crowd' = [crowd EXCEPT ![i].status =
                    IF action = "validate" THEN "Validated" ELSE "Rejected"]
    /\ UNCHANGED <<dbvars, envvars, mailed, files, faults, cycles, cvars, tvars,
                   hret, fin, fout, clock, procs, beat>>

\* the table as the builder of ward w reads it at the time now: the ward of
\* a row is this ward, another one or NULL, created_at is in hours from now
SeenFrom(table, w, now) ==
    [i \in DOMAIN table |->
        [ward |-> IF table[i].ward = "none" THEN "none"
                  ELSE IF table[i].ward = w THEN "this" ELSE "other",
         status |-> table[i].status,
         created_at |-> (table[i].created_at - now) \div Hour,
         upvotes |-> table[i].upvotes]]

\* prepare_features_for_ward(ward) of either variant
ComputeFeatures(v, w) ==
    /\ w \in wards
    /\ fin' = [kind |-> "ward", variant |-> v, ward |-> w, at |-> clock,
               reports |-> crowd]
    /\ fout' = build_features(v, <<>>, SeenFrom(crowd, w, clock))
    /\ UNCHANGED <<dbvars, envvars, mailed, files, faults, cycles, cvars, tvars,
                   hret, sidevars>>

\* a day passes
DayPasses ==
    /\ clock < MaxDays * Day
    /\ clock' = clock + Day
    /\ UNCHANGED <<dbvars, envvars, mailed, files, faults, cycles, cvars, tvars,
                   hret, fin, fout, procs, beat, crowd>>

\* residents submit reports, the authority validates or rejects them, the
\* features of the wards are computed meanwhile
InitReport ==
    /\ wards = {1, 2}
    /\ wardLevel = [w \in WardIds |-> "Low"]
    /\ InitCommon
    /\ tvariant = "basic"
    /\ weather = [w \in WardIds |-> <<>>]
    /\ reports = [w \in WardIds |-> 0]
    /\ subscribers = {1}
    /\ samples = MIN_SAMPLES
    /\ files = [v \in TrainVariants |-> NoFiles]

NextReport ==
    \/ submit_report_view
    \/ \E i \in 1..MaxStored, action \in {"validate", "reject"} :
          authority_dashboard_view(i, action)
    \/ \E v \in Variants, w \in WardIds : ComputeFeatures(v, w)
    \/ DayPasses

SpecReport == InitReport /\ [][NextReport]_vars

(* ------------------------- the functions alone ------------------------ *)
\* one call per behaviour: fin is the input of the call, fout what it returns
\* a call of the trained-mode classification with an artifact and the
\* distribution it answers
CallTrained ==
    /\ fin = NoneVal
    /\ \E v \in TrainVariants :
        \E classes \in ArtifactClasses(v) :
            \E q \in ProbaOfClasses(Len(classes)) :
                /\ fin' = [kind |-> "trained", variant |-> v,
                            classes |-> classes, proba |-> q]
                /\ fout' = trained_result(v, classes, q)
                /\ UNCHANGED <<dbvars, envvars, mailed, files, faults, cycles,
                               cvars, tvars, hret, sidevars>>

\* a call of the baseline classification with the features of a ward: the
\* readings of the window add up to n over d readings, k reports are counted
CallBaseline ==
    /\ fin = NoneVal
    /\ \E v \in Variants, n \in RainSums, d \in 1..2, k \in 0..MaxCount :
        LET f == [kind |-> "features", rain_num |-> n, rain_den |-> d,
                  validated_reports_7d |-> k]
        IN /\ fin' = [kind |-> "baseline", variant |-> v, features |-> f]
           /\ fout' = baseline_prediction(v, f)
           /\ UNCHANGED <<dbvars, envvars, mailed, files, faults, cycles,
                          cvars, tvars, hret, sidevars>>

\* two calls of the baseline classification that differ in the rainfall only
CallBaselineTwice ==
    /\ fin = NoneVal
    /\ \E v \in Variants, k \in 0..MaxCount :
       \E n1 \in RainSums, n2 \in RainSums, d1 \in 1..2, d2 \in 1..2 :
          LET F(n, d) == [kind |-> "features", rain_num |-> n, rain_den |-> d,
                          validated_reports_7d |-> k]
              Result(f) == [score |-> FloatScore(v, f),
                            risk_level |-> baseline_prediction(v, f).risk_level]
          IN /\ n1 * d2 <= n2 * d1
             /\ fin' = [kind |-> "rainfalls", variant |-> v,
                        first |-> F(n1, d1), second |-> F(n2, d2)]
             /\ fout' = [kind |-> "results", first |-> Result(F(n1, d1)),
                         second |-> Result(F(n2, d2))]
    /\ UNCHANGED <<dbvars, envvars, mailed, files, faults, cycles,
                   cvars, tvars, hret, sidevars>>

\* a call of the feature builder over the stored observations of a ward
CallFeatures ==
    /\ fin = NoneVal
    /\ \E v \in Variants :
          \/ \E store \in Stores :
                /\ fin' = [kind |-> "store", variant |-> v, store |-> store,
                           reports |-> <<>>, readable |-> TRUE]
                /\ fout' = features_or_none(v, store, <<>>, TRUE)
          \/ \E store \in FewStores, reps \in ReportTables,
                 readable \in BOOLEAN :
                /\ fin' = [kind |-> "store", variant |-> v, store |-> store,
                           reports |-> reps, readable |-> readable]
                /\ fout' = features_or_none(v, store, reps, readable)
    /\ UNCHANGED <<dbvars, envvars, mailed, files, faults, cycles,
                   cvars, tvars, hret, sidevars>>

\* a call of the feature builder of the historical variant
CallEnhanced ==
    /\ fin = NoneVal
    /\ \E store \in Stores :
        /\ fin' = [kind |-> "enhanced", variant |-> "historical",
                   store |-> store]
        /\ fout' = prepare_enhanced_features(store)
        /\ UNCHANGED <<dbvars, envvars, mailed, files, faults, cycles,
                       cvars, tvars, hret, sidevars>>

InitPure ==
    /\ wards = {1}
    /\ wardLevel = [w \in WardIds |-> "Low"]
    /\ InitCommon
    /\ tvariant = "basic"
    /\ weather = [w \in WardIds |-> <<>>]
    /\ reports = [w \in WardIds |-> 0]
    /\ subscribers = {1}
    /\ samples = MIN_SAMPLES
    /\ files = [v \in TrainVariants |-> NoFiles]

NextPure ==
    \/ CallTrained
    \/ CallBaseline
    \/ CallBaselineTwice
    \/ CallFeatures
    \/ CallEnhanced

SpecPure == InitPure /\ [][NextPure]_vars

(* ------------------------------- claims ------------------------------- *)
\* C1: a failure while one ward is handled never stops the wards after it from
\* being evaluated in the same cycle: a cycle that has returned has gone
\* through its whole list of wards.
C1_AllWardsEvaluated ==
    cpc = "done" => cidx > Len(cwards)

\* C2: the number a cycle returns is the number of FloodPrediction rows it
\* persisted, in every outcome of the cycle.
C2_ReturnIsRowsPersisted ==
    cpc = "done" => cret = Len(predictions) - cstart

\* C3 as stated: the alert hook notifies for a ward only when the stored
\* current_risk_level of that ward is Low and High is being written over it, and
\* the save that completes is the one overwrite of that change.
C3_NotifiedOnlyLowToHigh ==
    [][\A w \in WardIds :
          alerts'[w] # alerts[w] =>
              /\ wardLevel[w] = "Low"
              /\ cpred.risk_level = "High"
              /\ wardLevel'[w] # wardLevel[w] =>
                    (wardLevel'[w] = "High" /\ wardWrites'[w] = wardWrites[w] + 1)]_vars

\* C3 as amended: the alert hook notifies for a ward only during a save of that
\* ward that writes High over a stored level other than High (Low or Medium),
\* once; a save that completes is then the one overwrite that sets the level to
\* High; and every change of the stored level to High is such a notified save.
\* A ward that stays High, and a save of Low or Medium, notify nothing.
C3_NotifiedOnlyOnChangeToHigh ==
    [][\A w \in WardIds :
          /\ alerts'[w] # alerts[w] =>
                /\ alerts'[w] = alerts[w] + 1
                /\ cpc = "save" /\ CurWard = w
                /\ cpred.risk_level = "High"
                /\ wardLevel[w] # "High"
                /\ wardLevel'[w] \in {wardLevel[w], "High"}
                /\ wardLevel'[w] = "High" <=> wardWrites'[w] = wardWrites[w] + 1
          /\ (wardLevel[w] # "High" /\ wardLevel'[w] = "High") =>
                /\ alerts'[w] = alerts[w] + 1
                /\ wardWrites'[w] = wardWrites[w] + 1
          /\ (wardLevel[w] = "High" \/ wardLevel'[w] # "High") =>
                (wardWrites'[w] # wardWrites[w] => alerts'[w] = alerts[w])]_vars

\* C3 witness: a ward was notified by the one overwrite that made it High
C3_Witness ==
    \E w \in WardIds :
        /\ alerts[w] = 1 /\ wardWrites[w] = 1 /\ wardLevel[w] = "High"
        /\ cpc = "done" /\ cret = Len(cwards)

\* C4: a cycle writes the ward's record only when the predicted level differs
\* from the stored current_risk_level.
C4_WriteOnlyOnChange ==
    [][\A w \in WardIds :
          wardWrites'[w] # wardWrites[w] => wardLevel'[w] # wardLevel[w]]_vars

\* C5: a trained-mode prediction uses a model file and a scaler file that were
\* dumped by one and the same training run.
C5_ModelAndScalerOfOneRun ==
    (cpred.kind = "prediction" /\ cpred.mode = "trained") => cpred.model = cpred.scaler

\* C6: when two training calls of one variant have both returned success, with
\* no failure anywhere, the model file and the scaler file are of one run.
C6_FilesOfOneRunAfterBoth ==
    ((\A t \in Trainers : tpc[t] = "done" /\ tret[t]) /\ faults = MaxFaults)
        => files[tvariant].model = files[tvariant].scaler

\* C7: a training call that returns False leaves both artifact files as they
\* were when it was called (no other training call has been made).
C7_FailedTrainingKeepsFiles ==
    \A t \in Trainers :
        (/\ tpc[t] = "done" /\ ~tret[t]
         /\ \A o \in Trainers \ {t} : tpc[o] = "idle")
            => files[tvariant] = tstart[t]

\* C8: with no model file, a prediction for a ward whose features were built
\* is a baseline prediction with a risk level, in every variant.
C8_BaselineWithoutArtifact ==
    /\ (cpc = "create" /\ cmodel = Absent /\ CurWard \notin cfailed)
          => (cpred.kind = "prediction" /\ cpred.mode = "baseline")
    /\ (hret.kind = "call" /\ ~hret.model_existed /\ hret.features_built)
          => hret.result.kind = "prediction"

C10_ProbabilitiesSumToOne ==
    \A i \in 1..Len(predictions) :
        predictions[i].probability_low + predictions[i].probability_medium
            + predictions[i].probability_high = predictions[i].unit

\* the stored probability of a level in a FloodPrediction row
StoredProbability(row, level) ==
    IF level = "Low" THEN row.probability_low
    ELSE IF level = "Medium" THEN row.probability_medium
    ELSE row.probability_high

\* C11: in every persisted FloodPrediction row the predicted_risk_level is the
\* class whose stored probability is the largest of the three.
C11_LevelIsArgMaxOfRow ==
    \A i \in 1..Len(predictions) :
        \A level \in RISK_CHOICES :
            StoredProbability(predictions[i], predictions[i].predicted_risk_level)
                >= StoredProbability(predictions[i], level)

\* the entry of a returned probabilities dict for a level
ReturnedProbability(result, level) ==
    IF level = "Low" THEN result.low
    ELSE IF level = "Medium" THEN result.medium
    ELSE result.high

\* C12: in trained mode, for every artifact training can produce and every
\* distribution it answers, the returned risk_level is the class with the
\* largest entry of the returned Low/Medium/High probabilities.
C12_TrainedLevelIsArgMax ==
    (fin.kind = "trained" /\ fout.kind = "prediction") =>
        \A level \in RISK_CHOICES :
            ReturnedProbability(fout, fout.risk_level)
                >= ReturnedProbability(fout, level)

RowsOfCycle(w) ==
    {i \in (cstart + 1)..Len(predictions) : predictions[i].ward = w}

\* C14: the FloodPrediction table is append-only.  A step of a cycle leaves
\* every earlier row as it is and adds at most one row; a prediction that is
\* recorded adds exactly one row, of the current ward, whatever rows of that
\* ward exist already; a cycle that has run through its wards has added one
\* row for each ward it counted and none for any other.
C14_AuditLogAppendOnly ==
    [][/\ Len(predictions') \in {Len(predictions), Len(predictions) + 1}
       /\ \A i \in 1..Len(predictions) : predictions'[i] = predictions[i]
       /\ Len(predictions') = Len(predictions) + 1 =>
              /\ cpc = "create"
              /\ predictions'[Len(predictions')] = Row(CurWard, cpred)
              /\ ccount' = ccount + 1
       /\ (cpc = "create" /\ cpc' = "save") => Len(predictions') = Len(predictions) + 1
       /\ (cpc = "loop" /\ cpc' = "done" /\ cidx > Len(cwards)) =>
              /\ cret' = Len(predictions) - cstart
              /\ \A w \in WardIds : Cardinality(RowsOfCycle(w)) <= 1]_vars

\* C14 witness: the same cycle ran twice within the validity window and the
\* table holds both rows of ward 1, equal in everything
C14_Witness ==
    /\ cpc = "done" /\ cycles = 2 /\ cret = Len(cwards)
    /\ Len(predictions) = 2 * Len(cwards)
    /\ \E i \in 1..cstart :
          /\ predictions[i].ward = 1 /\ predictions[i].recent
          /\ \E j \in RowsOfCycle(1) : predictions[j] = predictions[i]

\* C15: a cycle that has run through its wards has invoked the feature
\* builder for every ward of the ward registry.
C15_EveryRegistryWardEvaluated ==
    (cpc = "done" /\ cidx > Len(cwards)) =>
        \A w \in wards : \E k \in 1..Len(cwards) : cwards[k] = w

\* C16: a training call is skipped (it returns at once, with success, and
\* writes nothing) exactly when it is not forced and both files of the
\* artifact exist; otherwise it goes on to train.
C16_SkippedOnlyWhenBothFilesExist ==
    [][\A t \in Trainers :
          trun'[t] # trun[t] =>
              /\ tpc'[t] = "done" <=>
                    /\ ~tforce'[t]
                    /\ Exists(files[tvariant].model)
                    /\ Exists(files[tvariant].scaler)
              /\ tpc'[t] = "done" => (tret'[t] /\ files' = files)]_vars

\* C17 as stated: with fewer than 10 labeled samples a call of
\* train_historical_model that has returned, forced or not, has returned False,
\* and (no other training call having been made) the files are as they were.
C17_FewSamplesReturnsFalse ==
    (tvariant = "historical" /\ samples < MIN_SAMPLES) =>
        \A t \in Trainers :
            tpc[t] = "done" =>
                /\ ~tret[t]
                /\ (\A o \in Trainers \ {t} : tpc[o] = "idle") => files[tvariant] = tstart[t]

\* C17 as amended: with fewer than 10 labeled samples, a call of
\* train_historical_model that is forced or finds no model file gets as far as
\* the sample count and returns False there; a call that is not forced and
\* finds the model file returns True without looking at the samples; no step
\* of either call writes a file.
C17_FewSamplesWritesNothing ==
    [][(tvariant = "historical" /\ samples < MIN_SAMPLES) =>
          \A t \in Trainers :
              /\ tpc'[t] \in {"idle", "fit", "done"}
              /\ trun'[t] # trun[t] =>
                    /\ files' = files
                    /\ tpc'[t] = "done" <=>
                          (~tforce'[t] /\ Exists(files[tvariant].model))
                    /\ tpc'[t] = "done" => tret'[t]
              /\ (tpc[t] = "fit" /\ tpc'[t] # "fit") =>
                    (tpc'[t] = "done" /\ ~tret'[t] /\ files' = files)]_vars

\* C17 witness: a forced call over both files of an earlier run has returned
\* False for too few samples and the files are those of the earlier run
C17_Witness ==
    /\ tvariant = "historical" /\ samples < MIN_SAMPLES
    /\ faults = MaxFaults
    /\ \E t \in Trainers :
          /\ tpc[t] = "done" /\ tforce[t] /\ ~tret[t]
          /\ tstart[t] = GoodFiles /\ files[tvariant] = GoodFiles

\* C18: in baseline mode the level is the one of the score
\* clamp01(0.6 * rainfall / 50 + 0.4 * reports / 10) (basic) or
\* clamp01(0.7 * rainfall / 100 + 0.3 * reports / 15) (advanced): High when
\* score >= 0.7, Medium when 0.4 <= score < 0.7, Low otherwise, for every
\* non-negative rainfall and report count.  With rainfall n / d the score
\* is (12 n + 40 k d) / (1000 d), or (7 n + 20 k d) / (1000 d).
C18_BaselineLevelOfScore ==
    fin.kind = "baseline" =>
        LET f == fin.features
            n == f.rain_num
            d == f.rain_den
            k == f.validated_reports_7d
            score == IF fin.variant = "basic" THEN 12 * n + 40 * k * d
                     ELSE 7 * n + 20 * k * d
        IN fout.risk_level = IF score >= 700 * d THEN "High"
                             ELSE IF score >= 400 * d THEN "Medium"
                             ELSE "Low"

\* the observations of a store with a timestamp in [now - 24h, now]
InWindow(store) ==
    [t \in {u \in DOMAIN store : -Window <= u /\ u <= 0} |-> store[t]]

\* C19: only the observations with a timestamp in the closed window
\* [now - 24h, now] contribute to rainfall_24h_avg, rainfall_trend and the
\* current conditions: the features are those of the store without its
\* observations earlier than now - 24h or later than now.
C19_OnlyWindowContributes ==
    (fin.kind = "store" /\ fout.kind = "features") =>
        LET g == build_features(fin.variant, InWindow(fin.store), fin.reports)
        IN /\ fout.rainfall_24h_avg = g.rainfall_24h_avg
           /\ fout.rainfall_trend = g.rainfall_trend
           /\ fout.temperature = g.temperature

\* C20: rainfall_24h_avg is the mean of the rainfall values that are not null
\* of the observations in the 24h window, a reading of 0 mm counting as a
\* sample, and 0 when there is none; rainfall_historical_avg is the same mean
\* over the whole history of the ward.  Stated for the stores that hold no
\* observation later than now.
C20_MeanOverNonNullReadings ==
    (/\ fin.kind = "store" /\ fout.kind = "features"
     /\ \A t \in DOMAIN fin.store : t <= 0) =>
        LET NonNull(rows) ==
                SelectSeq([i \in 1..Len(rows) |-> fin.store[rows[i]].rain],
                          LAMBDA x : x # NullReading)
            Mean(s) == IF s = <<>> THEN Frac(0, 1)
                       ELSE Frac(SumSeq(s), Len(s))
        IN /\ fout.rainfall_24h_avg =
                  Mean(NonNull(SortedSeq(DOMAIN InWindow(fin.store))))
           /\ fout.rainfall_historical_avg =
                  Mean(NonNull(SortedSeq(DOMAIN fin.store)))

\* C21: rainfall_trend is the mean of the second half minus the mean of the
\* first half of the time-ordered rainfall values that are not null of the
\* 24h window, split at index floor(n / 2), a reading of 0 mm being a sample,
\* and it is 0 when the sequence has fewer than 2 samples.  Stated for the
\* stores that hold no observation later than now.
C21_TrendOverNonNullReadings ==
    (/\ fin.kind = "store" /\ fout.kind = "features"
     /\ \A t \in DOMAIN fin.store : t <= 0) =>
        LET rows == SortedSeq(DOMAIN InWindow(fin.store))
            seq == SelectSeq([i \in 1..Len(rows) |-> fin.store[rows[i]].rain],
                             LAMBDA x : x # NullReading)
            half == Len(seq) \div 2
            Mean(s) == Frac(SumSeq(s), Len(s))
        IN fout.rainfall_trend =
              IF Len(seq) < 2 THEN Frac(0, 1)
              ELSE FracSub(Mean(SubSeq(seq, half + 1, Len(seq))),
                           Mean(SubSeq(seq, 1, half)))

\* C22: in every feature builder the current conditions are read from the
\* observation with the greatest timestamp of the 24h window (the historical
\* variant reads its rainfall there too), and the neutral constant stands in
\* only when the window has no observation or the field of that observation
\* is absent: a recorded 0 is used as recorded.  Stated for the stores that
\* hold no observation later than now.
C22_CurrentConditionsOfLatest ==
    (/\ fin.kind \in {"store", "enhanced"} /\ fout.kind = "features"
     /\ \A t \in DOMAIN fin.store : t <= 0) =>
        LET win == InWindow(fin.store)
            last == CHOOSE t \in DOMAIN win : \A u \in DOMAIN win : u <= t
            Field(x, d) == IF DOMAIN win = {} \/ x = NullReading THEN d ELSE x
            neutral == IF fin.variant = "basic" THEN 20 ELSE 25
        IN /\ fout.temperature =
                 IF DOMAIN win = {} THEN neutral
                 ELSE Field(win[last].temp, neutral)
           /\ fin.kind = "enhanced" =>
                 fout.rainfall = IF DOMAIN win = {} THEN 0
                                 ELSE Field(win[last].rain, 0)

\* C23: the feature builder never raises.  A data-access error gives a null
\* feature set; otherwise the result has exactly the 8 named fields, and for
\* a ward without weather observations and without reports they are 0 for
\* the three rainfall features and the two report features and the neutral
\* constants of the variant for the conditions (20 / 50 / 0 basic,
\* 25 / 60 / 5 advanced).
C23_BuilderNeverRaises ==
    fin.kind = "store" =>
        /\ fout.kind \in {"features", "None"}
        /\ ~fin.readable => fout = NoneVal
        /\ fin.readable =>
              DOMAIN fout = {"kind", "rainfall_24h_avg", "rainfall_trend",
                             "rainfall_historical_avg", "temperature",
                             "humidity", "wind_speed", "validated_reports_7d",
                             "report_severity_avg"}
        /\ (/\ fin.readable
            /\ fin.store = <<>>
            /\ \A i \in DOMAIN fin.reports : fin.reports[i].ward # "this") =>
              /\ fout.rainfall_24h_avg = Frac(0, 1)
              /\ fout.rainfall_trend = Frac(0, 1)
              /\ fout.rainfall_historical_avg = Frac(0, 1)
              /\ fout.validated_reports_7d = 0
              /\ fout.report_severity_avg = Frac(0, 1)
              /\ fout.temperature = IF fin.variant = "basic" THEN 20 ELSE 25
              /\ fout.humidity = IF fin.variant = "basic" THEN 50 ELSE 60
              /\ fout.wind_speed = IF fin.variant = "basic" THEN 0 ELSE 5

\* C23 witnesses: the advanced builder has answered for a ward without
\* observations while another ward has a validated report; the builder has
\* answered null on a data-access error
C23_Witness ==
    /\ fin.kind = "store" /\ fin.variant = "advanced" /\ fin.readable
    /\ fin.store = <<>>
    /\ \E i \in DOMAIN fin.reports :
          fin.reports[i] = [ward |-> "other", status |-> "Validated",
                            created_at |-> 0, upvotes |-> 0]
    /\ fout.kind = "features" /\ fout.wind_speed = 5

\* C24: validated_reports_7d of a ward is the number of reports of that ward
\* with status Validated and created_at in [now - 7d, now]; a report that is
\* pending or rejected, of another ward or of no ward, or older than 7 days
\* changes no feature of the ward: the features are those of the table
\* without such reports.
C24_OnlyValidatedReportsOfWard ==
    (fin.kind = "store" /\ fout.kind = "features") =>
        LET counted == {i \in DOMAIN fin.reports :
                           /\ fin.reports[i].ward = "this"
                           /\ fin.reports[i].status = "Validated"
                           /\ -Week <= fin.reports[i].created_at
                           /\ fin.reports[i].created_at <= 0}
        IN /\ fout.validated_reports_7d = Cardinality(counted)
           /\ fout = build_features(fin.variant, fin.store,
                                    [i \in counted |-> fin.reports[i]])

\* C24 witness: of two validated reports of the ward, the one created exactly
\* 7 days ago is counted and the older one is not
C24_Witness ==
    /\ fin.kind = "store" /\ fout.kind = "features"
    /\ \E i, j \in DOMAIN fin.reports :
          /\ fin.reports[i] = [ward |-> "this", status |-> "Validated",
                               created_at |-> -Week, upvotes |-> 7]
          /\ fin.reports[j] = [ward |-> "this", status |-> "Validated",
                               created_at |-> -200, upvotes |-> 0]
    /\ fout.validated_reports_7d = 1
    /\ fout.report_severity_avg = Frac(10, 1)

\* C25: every persisted prediction row has valid_until exactly 2 hours after
\* valid_from, hence later than valid_from, in the basic and the advanced
\* cycle, for trained and baseline predictions alike.
C25_ValidForTwoHours ==
    \A i \in 1..Len(predictions) :
        /\ predictions[i].valid_until - predictions[i].valid_from = 2 * Hour
        /\ predictions[i].valid_until > predictions[i].valid_from

\* C25 witness: an advanced cycle has persisted a trained row and a baseline
\* row at different times
C25_Witness ==
    \E i, j \in 1..Len(predictions) :
        /\ predictions[i].model_version = "v3.0-advanced"
        /\ predictions[i].mode = "trained"
        /\ predictions[j].mode = "baseline"
        /\ predictions[i].valid_from # predictions[j].valid_from

\* the place of a level in the order Low < Medium < High
Rank(level) == CHOOSE i \in 1..3 : risk_levels[i] = level

\* C26: in baseline mode, for a fixed number of validated reports and two
\* rainfall values r1 <= r2, the risk score of r2 is not lower than the one
\* of r1 and the level of r2 is not lower than the one of r1, in the basic
\* and in the advanced baseline.
C26_BaselineMonotoneInRainfall ==
    fin.kind = "rainfalls" =>
        /\ FCmp(fout.second.score, fout.first.score) >= 0
        /\ Rank(fout.second.risk_level) >= Rank(fout.first.risk_level)

\* C26 witness: with 7 reports the basic baseline has answered Low for 10 mm
\* and High for 110 mm
C26_Witness ==
    /\ fin.kind = "rainfalls" /\ fin.variant = "basic"
    /\ fin.first.rain_num = 10 /\ fin.first.rain_den = 1
    /\ fin.first.validated_reports_7d = 7
    /\ fin.second.rain_num = 110 /\ fin.second.rain_den = 1
    /\ fout.first.risk_level = "Low"
    /\ fout.second.risk_level = "High"

\* the rows of ward w, in the order of their creation
RowsOfWard(w) == {i \in 1..Len(predictions) : predictions[i].ward = w}

\* every worker that took a cycle has finished it, and one did
AllFinished ==
    /\ \A p \in Procs : procs[p].pc \in {"idle", "done"}
    /\ \E p \in Procs : procs[p].pc = "done"

\* C27: after any interleaving of prediction cycles, once all of them have
\* finished, every ward's current_risk_level equals the predicted_risk_level
\* of that ward's most recently created FloodPrediction row.
C27_WardLevelIsLatestRow ==
    AllFinished =>
        \A w \in WardIds :
            RowsOfWard(w) # {} =>
                LET last == CHOOSE i \in RowsOfWard(w) : \A j \in RowsOfWard(w) : j <= i
                IN wardLevel[w] = predictions[last].predicted_risk_level

\* the time of the next scheduled run of trigger_high_risk_alerts
NextAlertTime ==
    CHOOSE t \in clock..(clock + Period) :
        /\ t % Period = AlertAt
        /\ t = clock => beat.alerted # clock
        /\ \A u \in clock..(t - 1) :
              ~(u % Period = AlertAt /\ (u = clock => beat.alerted # clock))

\* C28: under the beat schedule every High FloodPrediction row created by a
\* scheduled prediction run is eventually selected by a scheduled run of
\* trigger_high_risk_alerts, whatever the duration of the prediction run.  The
\* look-back window only moves forward, so a row is eventually selected exactly
\* when, as long as it is not selected, it lies within the look-back of the
\* next run of the alert task.
C28_HighRowsEventuallySelected ==
    \A i \in 1..Len(predictions) :
        (predictions[i].predicted_risk_level = "High" /\ i \notin beat.selected) =>
            predictions[i].created_at >= NextAlertTime - Hour

C30_ValidatedReportCountedForSomeWard ==
    fin.kind = "ward" =>
        \A i \in DOMAIN fin.reports :
            (/\ fin.reports[i].via = "submit_report_view"
             /\ fin.reports[i].status = "Validated"
             /\ fin.at - fin.reports[i].created_at <= 7 * Day) =>
                \E w \in wards :
                    i \in ValidatedReports7d(SeenFrom(fin.reports, w, fin.at))

====
